---- MODULE Spec2Model ----
(***************************************************************************)
(* Branch classification and safe deletion of the arborist package         *)
(* (src/src/arborist/git): BranchStatusManager, BranchCleanup and          *)
(* BranchOperations over a small git repository.                           *)
(*                                                                         *)
(* Branch names and protection patterns are sequences of one-character     *)
(* strings, so that prefix and glob matching are computed on characters.   *)
(* The git backend is modelled by the repository variables: the local      *)
(* heads with their tip commits, the tracking configuration, the checked   *)
(* out branch, and for each remote whether its URL can be reached and      *)
(* which heads it holds.                                                   *)
(***************************************************************************)
EXTENDS Integers, Sequences, FiniteSets, TLC

\* ------------------------------------------------------------------ bounds

\* At most this many local branches exist at a time.
MaxBranches == 3

\* At most this many backend calls fail during one classification pass.
MaxFaults == 1

\* The longest pattern list passed to the protection matcher on its own.
MaxPatterns == 2

\* The longest name passed to the branch name validator on its own.
MaxNameLen == 3

\* ------------------------------------------------------------- branch names

main == <<"m", "a", "i", "n">>
f_dash_b == <<"f", "-", "b">>
f_slash_a == <<"f", "/", "a">>
fx == <<"f", "x">>

\* The branch names of the model, in the byte order in which repo.heads
\* lists them ('-' < '/' < 'x', "f..." < "main").
NameOrder == <<f_dash_b, f_slash_a, fx, main>>

Names == {NameOrder[i] : i \in 1..Len(NameOrder)}

Rank(n) == CHOOSE i \in 1..Len(NameOrder) : NameOrder[i] = n

\* The protect arguments of the model: none, a prefix pattern, a glob, and a
\* list of exact names.
ProtectLists ==
    { <<>>,
      << <<"f">> >>,
      << <<"f", "*">> >>,
      << fx, main >> }

\* ------------------------------------------------------------ commit graph

\* Commit 1 is a root, 2 is its child, 3 is an unrelated root, and 4 is a
\* second child of 1 that holds the same tree as 2 (the same change, committed
\* apart).
Commits == {1, 2, 3, 4}

\* The commits at which the classifier and planner specifications create
\* branches, and those of the executor specification.
PlanCommits == {1, 2, 3}
ExecCommits == {1, 4}

NoCommit == 0

Parents(c) == IF c \in {2, 4} THEN {1} ELSE {}

\* commit.tree
Tree(c) == IF c = 4 THEN 2 ELSE c

RECURSIVE Reach(_, _)
\* The commits reachable from the commits in S over at most k parent links.
Reach(S, k) ==
    IF k = 0 THEN S
    ELSE Reach(S \cup UNION {Parents(c) : c \in S}, k - 1)

AncestorsOrSelf(c) == Reach({c}, Cardinality(Commits))

\* git merge-base --is-ancestor a b
is_ancestor(a, b) == a \in AncestorsOrSelf(b)

\* git merge-base a b: the common ancestors that are not ancestors of another
\* common ancestor.
merge_base(a, b) ==
    LET common == AncestorsOrSelf(a) \cap AncestorsOrSelf(b)
    IN {c \in common : \A d \in common \ {c} : ~is_ancestor(c, d)}

\* merge_base[0]
FirstOf(S) == CHOOSE c \in S : \A d \in S : c <= d

\* ------------------------------------------------------------------ remotes

Remotes == {"origin", "upstream"}

NoTracking == "none"

\* The heads of the second remote; they do not change.
UpstreamHeads == {main, fx}

BranchStatus == {"MERGED", "UNMERGED", "GONE", "UNKNOWN"}

\* The backend calls of one classification pass that can fail for a branch:
\* the merge-base computation (GitCommandError) and the lookup of the target
\* head after get_branch_status validated it (the ref was removed meanwhile).
FaultKinds == {"merge_base", "get_branch"}


VARIABLES
    tip,          \* tip[n]: tip commit of local branch n, NoCommit if n does not exist
    tracking,     \* tracking[n]: remote named by n's tracking reference, or NoTracking
    current,      \* repo.active_branch.name
    worktrees,    \* the branches checked out in a secondary worktree
    remotes,      \* repo.remotes: the configured remotes
    remoteUp,     \* remoteUp[r]: the URL of remote r can be reached
    remoteHeads,  \* remoteHeads[r]: the heads that exist on remote r
    pc,           \* position of the program
    op,           \* the operation that runs or has just returned
    arg,          \* its branch name argument
    force,        \* its force argument
    protect,      \* its protect (protected_branches) argument
    no_verify,    \* its no_verify argument
    dry_run,      \* its dry_run argument
    no_interactive, \* its no_interactive argument
    faults,       \* backend failures of the last classification pass
    faults2,      \* backend failures met by the pass of _validate_branch_merged
    status,       \* result of the last get_branch_status call
    to_delete,    \* result of the last _get_branches_to_delete call
    idx,          \* position of _delete_branches_batch in to_delete
    deleted,      \* the deleted list of _delete_branches_batch
    failed,       \* the failed list of _delete_branches_batch
    err,          \* the error raised by the operation, or NoErr
    ret,          \* the value returned by the last pure call, or NoRet
    prompts       \* the confirmations asked: pairs of branch name and answer

repoVars == <<tip, tracking, current, worktrees, remotes, remoteUp, remoteHeads>>
argVars == <<op, arg, force, protect, no_verify, dry_run, no_interactive>>
batchVars == <<idx, deleted, failed>>
progVars ==
    <<pc, argVars, faults, faults2, status, to_delete, batchVars, err, ret,
      prompts>>
vars == <<repoVars, progVars>>

\* repo.heads
heads == {n \in Names : tip[n] # NoCommit}

\* repo.heads as the list the code iterates over
HeadsList == SelectSeq(NameOrder, LAMBDA n : n \in heads)

NoStatus == [ok |-> FALSE, map |-> <<>>]

NoName == <<>>

\* GitError(message): the kind of the message and the branch it names.
GitError(kind, branch) == [kind |-> kind, branch |-> branch]

NoErr == GitError("none", NoName)

NoRet == "none"

\* The sets of backend failures one classification pass can meet.
Faults(kinds) == {F \in SUBSET (kinds \X heads) : Cardinality(F) <= MaxFaults}

\* --------------------------------------------------------- classification

\* Remote.fetch(refspec=head) raises GitCommandError when the remote cannot be
\* reached or has no such head; the caller turns both into False.
_try_fetch_remote_branch(remote, branch_name) ==
    remoteUp[remote] /\ branch_name \in remoteHeads[remote]

_get_tracking_branch(branch) == tracking[branch]

\* The head named by the tracking reference: branches are pushed under their
\* own name.
remote_head(branch) == branch

\* A gone check that forgets to return False for a branch without a tracking
\* reference.
_is_branch_gone_untracked(branch) ==
    \A r \in remotes : ~_try_fetch_remote_branch(r, remote_head(branch))

_is_branch_gone(branch) ==
    IF _get_tracking_branch(branch) = NoTracking THEN FALSE
    ELSE \A r \in remotes : ~_try_fetch_remote_branch(r, remote_head(branch))

\* A merged check that accepts any pair of commits with a common ancestor.
_check_branch_merged_any_base(branch, target, F) ==
    IF <<"merge_base", branch>> \in F THEN FALSE
    ELSE merge_base(tip[branch], tip[target]) # {}

_check_branch_merged(branch, target, F) ==
    IF <<"merge_base", branch>> \in F THEN FALSE
    ELSE LET mb == merge_base(tip[branch], tip[target])
         IN IF mb = {} THEN FALSE
            ELSE is_ancestor(tip[branch], tip[target]) /\ FirstOf(mb) = tip[branch]

\* A classification that checks merged before gone.
_get_branch_status_merged_first(branch, target_branch, F) ==
    IF <<"get_branch", branch>> \in F
    THEN IF _is_branch_gone(branch) THEN "GONE" ELSE "UNKNOWN"
    ELSE IF _check_branch_merged(branch, target_branch, F) THEN "MERGED"
    ELSE IF _is_branch_gone(branch) THEN "GONE"
    ELSE "UNMERGED"

_get_branch_status(branch, target_branch, F) ==
    IF _is_branch_gone(branch) THEN "GONE"
    ELSE IF <<"get_branch", branch>> \in F THEN "UNKNOWN"
    ELSE IF _check_branch_merged(branch, target_branch, F) THEN "MERGED"
    ELSE "UNMERGED"

\* ok is FALSE when get_branch_status raises GitError (the target branch does
\* not exist).
get_branch_status(target_branch, F) ==
    IF target_branch \notin heads THEN NoStatus
    ELSE [ok |-> TRUE,
          map |-> [n \in heads |-> _get_branch_status(n, target_branch, F)]]

\* -------------------------------------------------------------- protection

StartsWith(s, prefix) ==
    Len(prefix) <= Len(s) /\ SubSeq(s, 1, Len(prefix)) = prefix

Contains(s, ch) == \E i \in 1..Len(s) : s[i] = ch

RECURSIVE fnmatch(_, _)
\* fnmatch.fnmatch(name, pat) for patterns of literal characters, '*' and '?'
\* (no character of the model opens a bracket expression).
fnmatch(name, pat) ==
    IF pat = <<>> THEN name = <<>>
    ELSE IF Head(pat) = "*"
         THEN \/ fnmatch(name, Tail(pat))
              \/ name # <<>> /\ fnmatch(Tail(name), pat)
    ELSE IF name = <<>> THEN FALSE
    ELSE IF Head(pat) = "?" THEN fnmatch(Tail(name), Tail(pat))
    ELSE Head(name) = Head(pat) /\ fnmatch(Tail(name), Tail(pat))

\* A prefix rule that needs no separator after the pattern.
PatternProtects_bare_prefix(branch, pattern) ==
    IF Contains(pattern, "*") THEN fnmatch(branch, pattern)
    ELSE StartsWith(branch, pattern)

\* One round of the loop over the patterns.
PatternProtects(branch, pattern) ==
    IF Contains(pattern, "*") THEN fnmatch(branch, pattern)
    ELSE \/ branch = pattern
         \/ StartsWith(branch, pattern \o <<"-">>)
         \/ StartsWith(branch, pattern \o <<"/">>)

_is_protected_by_pattern(branch, patterns) ==
    IF patterns = <<>> THEN FALSE
    ELSE IF \E i \in 1..Len(patterns) : patterns[i] = branch THEN TRUE
    ELSE \E i \in 1..Len(patterns) : PatternProtects(branch, patterns[i])

\* ----------------------------------------------------------------- planner

\* A planner that proposes the checked-out branch.
PlanKeeps_with_current(branch, state, cur, force_, protect_) ==
    /\ ~(protect_ # <<>> /\ _is_protected_by_pattern(branch, protect_))
    /\ ~(~force_ /\ state # "GONE" /\ tracking[branch] # NoTracking)
    /\ \/ state \in {"MERGED", "GONE"}
       \/ state = "UNMERGED" /\ force_

\* A planner that ignores the protection patterns.
PlanKeeps_unprotected(branch, state, cur, force_, protect_) ==
    /\ branch # cur
    /\ ~(~force_ /\ state # "GONE" /\ tracking[branch] # NoTracking)
    /\ \/ state \in {"MERGED", "GONE"}
       \/ state = "UNMERGED" /\ force_

\* A planner that lets force include every status.
PlanKeeps_force_all(branch, state, cur, force_, protect_) ==
    /\ branch # cur
    /\ ~(protect_ # <<>> /\ _is_protected_by_pattern(branch, protect_))
    /\ ~(~force_ /\ state # "GONE" /\ tracking[branch] # NoTracking)
    /\ \/ state \in {"MERGED", "GONE"}
       \/ force_

\* A planner that includes unmerged branches without force.
PlanKeeps_unmerged(branch, state, cur, force_, protect_) ==
    /\ branch # cur
    /\ ~(protect_ # <<>> /\ _is_protected_by_pattern(branch, protect_))
    /\ ~(~force_ /\ state # "GONE" /\ tracking[branch] # NoTracking)
    /\ state \in {"MERGED", "GONE", "UNMERGED"}

\* A planner without the remote tracking rule.
PlanKeeps_tracked(branch, state, cur, force_, protect_) ==
    /\ branch # cur
    /\ ~(protect_ # <<>> /\ _is_protected_by_pattern(branch, protect_))
    /\ \/ state \in {"MERGED", "GONE"}
       \/ state = "UNMERGED" /\ force_

\* The body of the loop over status.items(): TRUE when the branch is appended
\* to to_delete.
PlanKeeps(branch, state, cur, force_, protect_) ==
    /\ branch # cur
    /\ ~(protect_ # <<>> /\ _is_protected_by_pattern(branch, protect_))
    /\ ~(~force_ /\ state # "GONE" /\ tracking[branch] # NoTracking)
    /\ \/ state \in {"MERGED", "GONE"}
       \/ state = "UNMERGED" /\ force_

\* The list returned for the status map st; <<>> when get_branch_status
\* raised.
_get_branches_to_delete(st, force_, protect_) ==
    IF ~st.ok THEN <<>>
    ELSE SelectSeq(HeadsList,
                   LAMBDA b : PlanKeeps(b, st.map[b], current, force_, protect_))

\* ----------------------------------------------------------------- backend

\* repo.delete_head(branch, force=force), git branch -d or -D: refused for a
\* branch that is checked out, here or in a secondary worktree; without force
\* the tip must be merged into the upstream when its remote-tracking ref
\* resolves (it stays at the pushed tip, and is pruned once the head is gone
\* from the remote), else into HEAD.
delete_head(branch, force_) ==
    IF branch = current \/ branch \in worktrees THEN "checked_out"
    ELSE IF force_ THEN "ok"
    ELSE IF /\ tracking[branch] # NoTracking
            /\ branch \in remoteHeads[tracking[branch]]
    THEN "ok"
    ELSE IF is_ancestor(tip[branch], tip[current]) THEN "ok"
    ELSE "not_fully_merged"

\* repo.git.push(remote, "--delete", name)
push_delete(remote, name) ==
    IF remote \notin remotes \/ ~remoteUp[remote] THEN "unreachable"
    ELSE IF name \notin remoteHeads[remote] THEN "remote ref does not exist"
    ELSE "ok"

\* --------------------------------------------------------------- validator

InvalidChars == {" ", "~", "^", ":", "?", "*", "[", "\\"}

\* The character with code 127, written by its name.
DEL == "DEL"

\* Characters with a code below 32, and the one with code 127.
ControlChars == {"\t", "\n", "\r", "\f", DEL}

EndsWith(s, suffix) ==
    Len(suffix) <= Len(s) /\ SubSeq(s, Len(s) - Len(suffix) + 1, Len(s)) = suffix

HasSub(s, sub) ==
    \E i \in 1..(Len(s) - Len(sub) + 1) : SubSeq(s, i, i + Len(sub) - 1) = sub

\* A validator that looks at the dots before the characters.
validate_branch_name_dots_first(branch_name) ==
    IF branch_name = <<>> THEN "empty"
    ELSE IF \/ StartsWith(branch_name, <<"-">>) \/ StartsWith(branch_name, <<"/">>)
            \/ EndsWith(branch_name, <<"-">>) \/ EndsWith(branch_name, <<"/">>)
         THEN "start_end"
    ELSE IF HasSub(branch_name, <<"/", "/">>) THEN "double_slash"
    ELSE IF StartsWith(branch_name, <<".">>) \/ EndsWith(branch_name, <<".">>)
         THEN "dots"
    ELSE IF \E ch \in InvalidChars : Contains(branch_name, ch) THEN "invalid_chars"
    ELSE IF \E ch \in ControlChars : Contains(branch_name, ch) THEN "control_chars"
    ELSE IF HasSub(branch_name, <<"@", "{">>) THEN "reflog"
    ELSE "ok"

\* "ok", or the rule whose GitError validate_branch_name raises.
validate_branch_name(branch_name) ==
    IF branch_name = <<>> THEN "empty"
    ELSE IF \/ StartsWith(branch_name, <<"-">>) \/ StartsWith(branch_name, <<"/">>)
            \/ EndsWith(branch_name, <<"-">>) \/ EndsWith(branch_name, <<"/">>)
         THEN "start_end"
    ELSE IF HasSub(branch_name, <<"/", "/">>) THEN "double_slash"
    ELSE IF \E ch \in InvalidChars : Contains(branch_name, ch) THEN "invalid_chars"
    ELSE IF \E ch \in ControlChars : Contains(branch_name, ch) THEN "control_chars"
    ELSE IF StartsWith(branch_name, <<".">>) \/ EndsWith(branch_name, <<".">>)
         THEN "dots"
    ELSE IF HasSub(branch_name, <<"@", "{">>) THEN "reflog"
    ELSE "ok"

\* ------------------------------------------------- BranchCleanup executor

\* NoErr, or the GitError raised.
_validate_branch_merged(branch, F) ==
    LET fresh == get_branch_status(main, F)
    IN IF ~fresh.ok THEN GitError("status_failed", main)
       ELSE IF fresh.map[branch] = "UNMERGED" THEN GitError("not_merged", branch)
       ELSE NoErr

\* NoErr on success, else the message returned: the two rewritten messages do
\* not name the branch, the first line of git's stderr does.
_perform_branch_deletion(branch, force_) ==
    LET r == delete_head(branch, force_)
    IN IF r = "ok" THEN NoErr
       ELSE IF r = "not_fully_merged" THEN GitError("unmerged_changes", NoName)
       ELSE GitError("delete_failed", branch)

\* _delete_single_branch gets as far as _validate_branch_merged.
Revalidates(branch, force_, st) ==
    /\ branch \in heads
    /\ branch # current
    /\ ~force_
    /\ st.map[branch] \notin {"MERGED", "GONE"}

\* An executor without the current-branch guard.
_delete_single_branch_unguarded(branch, force_, st, F) ==
    IF branch \notin heads THEN GitError("does_not_exist", branch)
    ELSE LET v == IF ~force_ /\ st.map[branch] \notin {"MERGED", "GONE"}
                  THEN _validate_branch_merged(branch, F)
                  ELSE NoErr
         IN IF v # NoErr THEN v
            ELSE _perform_branch_deletion(branch, force_ \/ st.map[branch] = "GONE")

\* An executor that passes the caller's force flag on as it is.
_delete_single_branch_plain_force(branch, force_, st, F) ==
    IF branch \notin heads THEN GitError("does_not_exist", branch)
    ELSE IF branch = current THEN GitError("current_branch", branch)
    ELSE LET v == IF ~force_ /\ st.map[branch] \notin {"MERGED", "GONE"}
                  THEN _validate_branch_merged(branch, F)
                  ELSE NoErr
         IN IF v # NoErr THEN v
            ELSE _perform_branch_deletion(branch, force_)

\* An executor that counts a branch that no longer exists as deleted.
_delete_single_branch_missing_is_deleted(branch, force_, st, F) ==
    IF branch \notin heads THEN NoErr
    ELSE IF branch = current THEN GitError("current_branch", branch)
    ELSE LET v == IF ~force_ /\ st.map[branch] \notin {"MERGED", "GONE"}
                  THEN _validate_branch_merged(branch, F)
                  ELSE NoErr
         IN IF v # NoErr THEN v
            ELSE _perform_branch_deletion(branch, force_ \/ st.map[branch] = "GONE")

\* NoErr when the branch was deleted, else the error returned.
_delete_single_branch(branch, force_, st, F) ==
    IF branch \notin heads THEN GitError("does_not_exist", branch)
    ELSE IF branch = current THEN GitError("current_branch", branch)
    ELSE LET v == IF ~force_ /\ st.map[branch] \notin {"MERGED", "GONE"}
                  THEN _validate_branch_merged(branch, F)
                  ELSE NoErr
         IN IF v # NoErr THEN v
            ELSE _perform_branch_deletion(branch, force_ \/ st.map[branch] = "GONE")

\* The first head that is neither in to_delete_ nor current_; NoName when
\* current_ is not in to_delete_ or no such head exists.
_find_safe_branch(current_, to_delete_) ==
    IF current_ \notin to_delete_ THEN NoName
    ELSE LET safe == SelectSeq(HeadsList,
                               LAMBDA b : b \notin to_delete_ /\ b # current_)
         IN IF safe = <<>> THEN NoName ELSE Head(safe)

\* heads[safe_branch].checkout(): git refuses a branch that is checked out in
\* a secondary worktree.
checkout(branch) == IF branch \in worktrees THEN "already_checked_out" ELSE "ok"

\* A helper that looks for no safe branch and reports success.
_switch_to_safe_branch_stays(current_, to_delete_) ==
    [success |-> TRUE, branch |-> NoName, error |-> NoErr]

\* The success flag, the branch checked out (NoName when none is) and the
\* error behind the message.
_switch_to_safe_branch(current_, to_delete_) ==
    IF current_ \notin to_delete_
    THEN [success |-> TRUE, branch |-> NoName, error |-> NoErr]
    ELSE LET safe_branch == _find_safe_branch(current_, to_delete_)
         IN IF safe_branch = NoName
            THEN [success |-> FALSE, branch |-> NoName,
                  error |-> GitError("no_safe_branch", current_)]
            ELSE IF checkout(safe_branch) = "ok"
            THEN [success |-> TRUE, branch |-> safe_branch, error |-> NoErr]
            ELSE [success |-> FALSE, branch |-> NoName,
                  error |-> GitError("switch_failed", safe_branch)]

\* ---------------------------------------------- BranchOperations executor

\* TRUE when _validate_not_protected raises.
_validate_not_protected(branch, protected_branches) ==
    \/ \E i \in 1..Len(protected_branches) : protected_branches[i] = branch
    \/ \E i \in 1..Len(protected_branches) :
          LET pattern == protected_branches[i]
          IN IF Contains(pattern, "*") THEN fnmatch(branch, pattern)
             ELSE \/ StartsWith(branch, pattern \o <<"-">>)
                  \/ StartsWith(branch, pattern \o <<"/">>)
                  \/ branch = pattern

\* A filter that takes out only the candidates named in protect_.
_remove_protected_branches_exact_only(to_delete_, protect_) ==
    IF protect_ = {} THEN to_delete_
    ELSE to_delete_ \ (to_delete_ \cap protect_)

\* The candidates that are left: to_delete_ and protect_ are sets.
_remove_protected_branches(to_delete_, protect_) ==
    IF protect_ = {} THEN to_delete_
    ELSE LET protected ==
                 {branch \in to_delete_ :
                      \E pattern \in protect_ : PatternProtects(branch, pattern)}
         IN to_delete_ \ protected

is_branch_upstream_of_another(upstream_branch_name, downstream_branch_name) ==
    LET upstream_commit == tip[upstream_branch_name]
        downstream_commit == tip[downstream_branch_name]
        mb == merge_base(upstream_commit, downstream_commit)
    IN IF upstream_commit = downstream_commit THEN TRUE
       ELSE IF mb = {} THEN FALSE
       ELSE IF FirstOf(mb) = upstream_commit THEN TRUE
       ELSE Tree(upstream_commit) = Tree(downstream_commit)

_is_branch_merged(branch) ==
    \E other_branch \in heads \ {branch} :
        is_branch_upstream_of_another(branch, other_branch)

\* What one call does: the error raised (NoErr when none), the remote whose
\* head was deleted (NoTracking when none), and whether the local head was
\* deleted.
Outcome(e, remote, local) == [err |-> e, remote |-> remote, local |-> local]

\* A deletion that removes the local head before it looks at the outcome of
\* the remote deletion.
_delete_branch_safely_local_first(branch, force_) ==
    IF branch = current
    THEN Outcome(GitError("current_branch", branch), NoTracking, FALSE)
    ELSE IF tracking[branch] # NoTracking /\ ~force_
    THEN Outcome(GitError("remote_tracking", branch), NoTracking, FALSE)
    ELSE IF tracking[branch] # NoTracking
    THEN LET remote == tracking[branch]
             pushed == push_delete(remote, branch)
         IN IF pushed = "unreachable"
            THEN Outcome(GitError("remote_delete_failed", NoName), NoTracking, TRUE)
            ELSE Outcome(NoErr,
                         IF pushed = "ok" THEN remote ELSE NoTracking,
                         TRUE)
    ELSE IF delete_head(branch, force_) = "ok"
    THEN Outcome(NoErr, NoTracking, TRUE)
    ELSE Outcome(GitError("delete_failed", branch), NoTracking, FALSE)

\* A deletion that leaves the current-branch guard to its caller.
_delete_branch_safely_caller_guards(branch, force_) ==
    IF tracking[branch] # NoTracking /\ ~force_
    THEN Outcome(GitError("remote_tracking", branch), NoTracking, FALSE)
    ELSE IF tracking[branch] # NoTracking
    THEN LET remote == tracking[branch]
             pushed == push_delete(remote, branch)
         IN IF pushed = "unreachable"
            THEN Outcome(GitError("remote_delete_failed", NoName), NoTracking, FALSE)
            ELSE LET deleted_remote == IF pushed = "ok" THEN remote
                                       ELSE NoTracking
                 IN IF delete_head(branch, force_) = "ok"
                    THEN Outcome(NoErr, deleted_remote, TRUE)
                    ELSE Outcome(GitError("delete_failed", branch),
                                 deleted_remote, FALSE)
    ELSE IF delete_head(branch, force_) = "ok"
    THEN Outcome(NoErr, NoTracking, TRUE)
    ELSE Outcome(GitError("delete_failed", branch), NoTracking, FALSE)

_delete_branch_safely(branch, force_) ==
    IF branch = current
    THEN Outcome(GitError("current_branch", branch), NoTracking, FALSE)
    ELSE IF tracking[branch] # NoTracking /\ ~force_
    THEN Outcome(GitError("remote_tracking", branch), NoTracking, FALSE)
    ELSE IF tracking[branch] # NoTracking
    THEN LET remote == tracking[branch]
             pushed == push_delete(remote, branch)
         IN IF pushed = "unreachable"
            THEN Outcome(GitError("remote_delete_failed", NoName), NoTracking, FALSE)
            ELSE LET deleted_remote == IF pushed = "ok" THEN remote
                                       ELSE NoTracking
                 IN IF delete_head(branch, force_) = "ok"
                    THEN Outcome(NoErr, deleted_remote, TRUE)
                    ELSE Outcome(GitError("delete_failed", branch),
                                 deleted_remote, FALSE)
    ELSE IF delete_head(branch, force_) = "ok"
    THEN Outcome(NoErr, NoTracking, TRUE)
    ELSE Outcome(GitError("delete_failed", branch), NoTracking, FALSE)

delete_branch(branch_name, force_, no_verify_, protected_branches) ==
    IF validate_branch_name(branch_name) # "ok"
    THEN Outcome(GitError("invalid_name", branch_name), NoTracking, FALSE)
    ELSE IF branch_name \notin heads
    THEN Outcome(GitError("does_not_exist", branch_name), NoTracking, FALSE)
    ELSE IF ~no_verify_ /\ branch_name = current
    THEN Outcome(GitError("current_branch", branch_name), NoTracking, FALSE)
    ELSE IF /\ ~no_verify_
            /\ protected_branches # <<>>
            /\ _validate_not_protected(branch_name, protected_branches)
    THEN Outcome(GitError("protected", branch_name), NoTracking, FALSE)
    ELSE IF ~no_verify_ /\ ~force_ /\ ~_is_branch_merged(branch_name)
    THEN Outcome(GitError("not_merged", branch_name), NoTracking, FALSE)
    ELSE _delete_branch_safely(branch_name, force_)

\* ------------------------------------------------------------ command line

\* git fetch --prune of origin: it fails when origin cannot be reached, and
\* there is nothing to fetch without a remote.
fetch_prune == IF "origin" \in remotes /\ ~remoteUp["origin"] THEN "failed" ELSE "ok"

\* The branch has an upstream whose remote-tracking ref does not resolve.
upstream_gone(b) ==
    tracking[b] # NoTracking /\ b \notin remoteHeads[tracking[b]]

\* [b for b in branches if b not in protected]
filter_protected_branches(branches, protected) ==
    SelectSeq(branches, LAMBDA b : \A i \in 1..Len(protected) : protected[i] # b)

\* The result of a run over a list of branches: the branches deleted, the
\* confirmations asked, and FALSE for ok when a deletion failed.
NoRun == [deleted |-> <<>>, prompts |-> <<>>, ok |-> TRUE]

\* The prompt that is asked for the whole list.
BulkPrompt == NoName

\* arborist/git.py delete_branch: NoErr, or the error raised.
arborist_git_delete_branch(branch, force_) ==
    IF branch \notin heads THEN GitError("delete_failed", branch)
    ELSE IF branch = current THEN GitError("delete_failed", branch)
    ELSE IF delete_head(branch, force_) # "ok"
    THEN GitError("delete_failed", branch)
    ELSE NoErr

\* arborist/git.py get_gone_branches: a fetch that fails is printed and no
\* branch is reported.
arborist_git_get_gone_branches ==
    IF "origin" \notin remotes THEN <<>>
    ELSE IF fetch_prune = "failed" THEN <<>>
    ELSE SelectSeq(HeadsList, upstream_gone)

\* arborist/git.py get_merged_branches(): git branch --merged <active branch>,
\* without the active branch, after the heads in deleted_ were deleted.
arborist_git_get_merged_branches(deleted_) ==
    SelectSeq(HeadsList,
              LAMBDA b : /\ b # current
                         /\ ~Contains(deleted_, b)
                         /\ is_ancestor(tip[b], tip[current]))

\* arborist/cli.py _delete_single_branch: the branch is in yes when the user
\* confirms its prompt.
cli_delete_single_branch(branch, dry_run_, force_, yes) ==
    IF branch \notin yes
    THEN [deleted |-> <<>>, prompts |-> << <<branch, FALSE>> >>, ok |-> TRUE]
    ELSE IF dry_run_
    THEN [deleted |-> <<>>, prompts |-> << <<branch, TRUE>> >>, ok |-> TRUE]
    ELSE IF arborist_git_delete_branch(branch, force_) = NoErr
    THEN [deleted |-> <<branch>>, prompts |-> << <<branch, TRUE>> >>, ok |-> TRUE]
    ELSE [deleted |-> <<>>, prompts |-> << <<branch, TRUE>> >>, ok |-> FALSE]

\* The loop of arborist/cli.py _delete_branches_interactive: it returns False
\* at the first deletion that fails.
RECURSIVE cli_single_loop(_, _, _, _)
cli_single_loop(branches, dry_run_, force_, yes) ==
    IF branches = <<>> THEN NoRun
    ELSE LET r == cli_delete_single_branch(Head(branches), dry_run_, force_, yes)
         IN IF ~r.ok THEN r
            ELSE LET rest == cli_single_loop(Tail(branches), dry_run_, force_, yes)
                 IN [deleted |-> r.deleted \o rest.deleted,
                     prompts |-> r.prompts \o rest.prompts,
                     ok |-> rest.ok]

\* arborist/cli.py _delete_branches_interactive: the bulk prompt is asked for
\* two or more branches; bulk is its answer.
cli_delete_branches_interactive(branches, dry_run_, force_, bulk, yes) ==
    IF Len(branches) > 1
    THEN LET r == cli_single_loop(branches, dry_run_, force_, yes)
         IN [r EXCEPT !.prompts = << <<BulkPrompt, bulk>> >> \o @]
    ELSE cli_single_loop(branches, dry_run_, force_, yes)

\* arborist/cli.py _delete_branches_non_interactive
RECURSIVE cli_delete_branches_non_interactive(_, _, _)
cli_delete_branches_non_interactive(branches, dry_run_, force_) ==
    IF dry_run_ \/ branches = <<>> THEN NoRun
    ELSE IF arborist_git_delete_branch(Head(branches), force_) # NoErr
    THEN [NoRun EXCEPT !.ok = FALSE]
    ELSE LET rest == cli_delete_branches_non_interactive(Tail(branches),
                                                         dry_run_, force_)
         IN [rest EXCEPT !.deleted = <<Head(branches)>> \o @]

\* arborist/cli.py delete_branches
cli_delete_branches(branches, dry_run_, interactive, force_, bulk, yes) ==
    IF branches = <<>> THEN NoRun
    ELSE IF ~interactive
    THEN cli_delete_branches_non_interactive(branches, dry_run_, force_)
    ELSE cli_delete_branches_interactive(branches, dry_run_, force_, bulk, yes)

\* git_cleanup/git.py get_gone_branches: the lines of git branch -vv marked
\* gone, the checked-out branch included.
git_cleanup_get_gone_branches == SelectSeq(HeadsList, upstream_gone)

\* git_cleanup/git.py get_merged_branches: git branch --merged without the
\* line of the checked-out branch, after the heads in deleted_ were deleted.
git_cleanup_get_merged_branches(deleted_) ==
    SelectSeq(HeadsList,
              LAMBDA b : /\ b # current
                         /\ ~Contains(deleted_, b)
                         /\ is_ancestor(tip[b], tip[current]))

\* git_cleanup/git.py delete_branch: git branch -d or -D
git_cleanup_delete_branch(branch, force_) ==
    IF branch \notin heads THEN GitError("delete_failed", branch)
    ELSE IF delete_head(branch, force_) # "ok"
    THEN GitError("delete_failed", branch)
    ELSE NoErr

\* git_cleanup/cli.py delete_branches: one prompt for each branch when
\* interactive, and an error is printed and the loop goes on.
RECURSIVE git_cleanup_delete_branches(_, _, _, _)
git_cleanup_delete_branches(branches, interactive, force_, yes) ==
    IF branches = <<>> THEN NoRun
    ELSE LET b == Head(branches)
             rest == git_cleanup_delete_branches(Tail(branches), interactive,
                                                 force_, yes)
             asked == IF interactive THEN << <<b, b \in yes>> >> ELSE <<>>
             done == /\ interactive => b \in yes
                     /\ git_cleanup_delete_branch(b, force_) = NoErr
         IN [deleted |-> (IF done THEN <<b>> ELSE <<>>) \o rest.deleted,
             prompts |-> asked \o rest.prompts,
             ok |-> TRUE]

\* ------------------------------------------------------------- environment

\* The positions at which another actor can check out or delete a branch:
\* between operations, and between the plan of clean and its deletions.
Interleaved == {"idle", "clean_confirmed"}

\* git branch <n> <c>
ExtCreateBranch(n, c) ==
    /\ pc = "idle"
    /\ n \notin heads
    /\ Cardinality(heads) < MaxBranches
    /\ tip' = [tip EXCEPT ![n] = c]
    /\ UNCHANGED <<tracking, current, remotes, worktrees, remoteUp, remoteHeads, progVars>>

\* git checkout <n>
ExtCheckout(n) ==
    /\ pc \in Interleaved
    /\ n \in heads
    /\ n # current
    /\ n \notin worktrees
    /\ current' = n
    /\ UNCHANGED <<tip, tracking, remotes, worktrees, remoteUp, remoteHeads,
                   progVars>>

\* git push --set-upstream origin <n>
ExtPush(n) ==
    /\ pc = "idle"
    /\ n \in heads
    /\ "origin" \in remotes
    /\ remoteUp["origin"]
    /\ tracking[n] = NoTracking
    /\ tracking' = [tracking EXCEPT ![n] = "origin"]
    /\ remoteHeads' = [remoteHeads EXCEPT !["origin"] = @ \cup {n}]
    /\ UNCHANGED <<tip, current, remotes, worktrees, remoteUp, progVars>>

\* The head n is deleted on origin by someone else.
ExtRemoteDelete(n) ==
    /\ pc = "idle"
    /\ n \in remoteHeads["origin"]
    /\ remoteHeads' = [remoteHeads EXCEPT !["origin"] = @ \ {n}]
    /\ UNCHANGED <<tip, tracking, current, remotes, worktrees, remoteUp, progVars>>

\* git remote set-url origin <url>: origin becomes unreachable, or reachable
\* again.
ExtSetUrl ==
    /\ pc = "idle"
    /\ "origin" \in remotes
    /\ remoteUp' = [remoteUp EXCEPT !["origin"] = ~@]
    /\ UNCHANGED <<tip, tracking, current, remotes, worktrees, remoteHeads, progVars>>

\* git branch -D <n> by another actor, of a branch that was never pushed.
ExtDeleteBranch(n) ==
    /\ pc \in Interleaved
    /\ n \in heads
    /\ n # current
    /\ n \notin worktrees
    /\ tracking[n] = NoTracking
    /\ tip' = [tip EXCEPT ![n] = NoCommit]
    /\ tracking' = [tracking EXCEPT ![n] = NoTracking]
    /\ UNCHANGED <<current, remotes, worktrees, remoteUp, remoteHeads,
                   progVars>>

EnvRepo ==
    \/ \E n \in Names, c \in Commits : ExtCreateBranch(n, c)
    \/ \E n \in Names : ExtPush(n)
    \/ \E n \in Names : ExtRemoteDelete(n)
    \/ ExtSetUrl
    \/ \E n \in Names : ExtDeleteBranch(n)

\* ------------------------------------------------------------------ program

\* The error get_branch_status raises when the status map st was not built.
StatusError(st) ==
    IF st.ok THEN NoErr ELSE GitError("status_failed", main)

\* BranchStatusManager.get_branch_status()
GetBranchStatus(F) ==
    /\ pc = "idle"
    /\ pc' = "classified"
    /\ op' = "get_branch_status"
    /\ faults' = F
    /\ status' = get_branch_status(main, F)
    /\ err' = StatusError(status')
    /\ UNCHANGED <<ret, prompts, faults2, repoVars, arg, force, protect, no_verify, dry_run,
                   no_interactive, to_delete, batchVars>>

\* BranchCleanup._get_branches_to_delete(force, protect)
GetBranchesToDelete(f, p, F) ==
    /\ pc = "idle"
    /\ pc' = "planned"
    /\ op' = "_get_branches_to_delete"
    /\ faults' = F
    /\ force' = f
    /\ protect' = p
    /\ status' = get_branch_status(main, F)
    /\ to_delete' = _get_branches_to_delete(status', f, p)
    /\ err' = StatusError(status')
    /\ UNCHANGED <<ret, prompts, faults2, repoVars, arg, no_verify, dry_run, no_interactive, batchVars>>

\* BranchCleanup._is_protected_by_pattern(branch, patterns)
IsProtected(branch, patterns) ==
    /\ pc = "idle"
    /\ pc' = "matched"
    /\ op' = "_is_protected_by_pattern"
    /\ arg' = branch
    /\ protect' = patterns
    /\ ret' = _is_protected_by_pattern(branch, patterns)
    /\ UNCHANGED <<repoVars, force, no_verify, dry_run, no_interactive, faults,
                   faults2, status, to_delete, batchVars, err, prompts>>

\* The three protection matchers called with the same name and patterns:
\* BranchCleanup._is_protected_by_pattern, BranchOperations._validate_not_protected
\* and BranchOperations._remove_protected_branches on the candidates others
\* and branch, with the patterns as a set.
ProtectionMatchers(branch, patterns, others) ==
    LET candidates == others \cup {branch}
        protect_ == {patterns[i] : i \in 1..Len(patterns)}
    IN /\ pc = "idle"
       /\ pc' = "compared"
       /\ op' = "protection_matchers"
       /\ arg' = branch
       /\ protect' = patterns
       /\ ret' = [is_protected |-> _is_protected_by_pattern(branch, patterns),
                  raises |-> _validate_not_protected(branch, patterns),
                  candidates |-> candidates,
                  remaining |-> _remove_protected_branches(candidates, protect_)]
       /\ UNCHANGED <<repoVars, force, no_verify, dry_run, no_interactive, faults,
                      faults2, status, to_delete, batchVars, err, prompts>>

\* validate_branch_name(name)
ValidateBranchName(name) ==
    /\ pc = "idle"
    /\ pc' = "validated"
    /\ op' = "validate_branch_name"
    /\ arg' = name
    /\ ret' = validate_branch_name(name)
    /\ UNCHANGED <<repoVars, force, protect, no_verify, dry_run, no_interactive,
                   faults, faults2, status, to_delete, batchVars, err, prompts>>

\* git worktree add <path> <n>
ExtWorktreeAdd(n) ==
    /\ pc = "idle"
    /\ n \in heads
    /\ n # current
    /\ n \notin worktrees
    /\ worktrees' = worktrees \cup {n}
    /\ UNCHANGED <<tip, tracking, current, remotes, remoteUp, remoteHeads,
                   progVars>>

\* The local head and its branch configuration are removed.
DeleteLocal(branch) ==
    /\ tip' = [tip EXCEPT ![branch] = NoCommit]
    /\ tracking' = [tracking EXCEPT ![branch] = NoTracking]

\* BranchOperations.delete_branch(name, force, no_verify, protected_branches),
\* reached through GitRepo.delete_branch.
OpsDeleteBranch(name, f, nv, p) ==
    LET o == delete_branch(name, f, nv, p)
    IN /\ pc = "idle"
       /\ pc' = "returned"
       /\ op' = "BranchOperations.delete_branch"
       /\ arg' = name
       /\ force' = f
       /\ no_verify' = nv
       /\ protect' = p
       /\ err' = o.err
       /\ IF o.local THEN DeleteLocal(name) ELSE UNCHANGED <<tip, tracking>>
       /\ remoteHeads' = IF o.remote = NoTracking THEN remoteHeads
                         ELSE [remoteHeads EXCEPT ![o.remote] = @ \ {name}]
       /\ UNCHANGED <<ret, prompts, faults2, current, remotes, worktrees, remoteUp, dry_run, no_interactive,
                      faults, status, to_delete, batchVars>>

\* BranchCleanup.delete_branch(name, force): F are the backend failures of its
\* status pass, F2 those of the pass inside _validate_branch_merged.
CleanupDeleteBranch(name, f, F, F2) ==
    LET st == get_branch_status(main, F)
        e == IF st.ok THEN _delete_single_branch(name, f, st, F2)
             ELSE StatusError(st)
    IN /\ pc = "idle"
       /\ pc' = "returned"
       /\ op' = "BranchCleanup.delete_branch"
       /\ arg' = name
       /\ force' = f
       /\ faults' = F
       /\ faults2' = IF st.ok /\ Revalidates(name, f, st) THEN F2 ELSE {}
       /\ status' = st
       /\ err' = e
       /\ IF e = NoErr THEN DeleteLocal(name) ELSE UNCHANGED <<tip, tracking>>
       /\ UNCHANGED <<ret, prompts, current, remotes, worktrees, remoteUp, remoteHeads, protect,
                      no_verify, dry_run, no_interactive, to_delete, batchVars>>

\* The names of the set t as a list, in the order of repo.heads.
ListOf(t) == SelectSeq(NameOrder, LAMBDA n : n \in t)

\* BranchCleanup._switch_to_safe_branch(current, td), called with the name
\* of the active branch as its parameter current documents.
SwitchToSafeBranch(td) ==
    LET cur == current
        r == _switch_to_safe_branch(cur, td)
    IN /\ pc = "idle"
       /\ pc' = "returned"
       /\ op' = "_switch_to_safe_branch"
       /\ arg' = cur
       /\ to_delete' = ListOf(td)
       /\ ret' = r.success
       /\ err' = r.error
       /\ current' = IF r.branch # NoName THEN r.branch ELSE current
       /\ UNCHANGED <<tip, tracking, worktrees, remotes, remoteUp, remoteHeads,
                      force, protect, no_verify, dry_run, no_interactive,
                      faults, faults2, status, batchVars, prompts>>

\* The local heads in the list names and their branch configuration are
\* removed.
DeleteLocals(names) ==
    /\ tip' = [n \in Names |-> IF Contains(names, n) THEN NoCommit ELSE tip[n]]
    /\ tracking' = [n \in Names |->
                       IF Contains(names, n) THEN NoTracking ELSE tracking[n]]

\* The classification behind the two lists of a command-line run.
CliStatus(gone, merged) ==
    [ok |-> TRUE,
     map |-> [b \in {n \in Names : Contains(gone, n) \/ Contains(merged, n)} |->
                 IF Contains(gone, b) THEN "GONE" ELSE "MERGED"]]

\* arborist/cli.py main: the gone branches, then the merged branches, and
\* exit code 1 as soon as one of the two deletions reports a failure.
ArboristMain(ni, dr, p, bulk, yes) ==
    LET gone == filter_protected_branches(arborist_git_get_gone_branches, p)
        r1 == cli_delete_branches(gone, dr, ~ni, FALSE, bulk, yes)
        merged == IF r1.ok
                  THEN filter_protected_branches(
                           arborist_git_get_merged_branches(r1.deleted), p)
                  ELSE <<>>
        r2 == cli_delete_branches(merged, dr, ~ni, TRUE, bulk, yes)
    IN /\ pc = "idle"
       /\ pc' = "returned"
       /\ op' = "arborist.cli.main"
       /\ no_interactive' = ni
       /\ dry_run' = dr
       /\ protect' = p
       /\ status' = CliStatus(gone, merged)
       /\ to_delete' = gone \o merged
       /\ deleted' = r1.deleted \o r2.deleted
       /\ prompts' = r1.prompts \o r2.prompts
       /\ err' = IF r1.ok /\ r2.ok THEN NoErr ELSE GitError("exit_1", NoName)
       /\ DeleteLocals(r1.deleted \o r2.deleted)
       /\ UNCHANGED <<current, worktrees, remotes, remoteUp, remoteHeads, arg,
                      force, no_verify, faults, faults2, idx, failed, ret>>

\* git_cleanup/cli.py main: fetch and prune unless dry, the gone branches
\* with force, then the merged branches; a fetch that fails raises GitError
\* out of main.
GitCleanupMain(dr, interactive, p, yes) ==
    LET fetched == IF dr THEN "skipped" ELSE fetch_prune
        gone == IF fetched = "failed" THEN <<>>
                ELSE filter_protected_branches(git_cleanup_get_gone_branches, p)
        r1 == IF dr THEN NoRun
              ELSE git_cleanup_delete_branches(gone, interactive, TRUE, yes)
        merged == IF fetched = "failed" THEN <<>>
                  ELSE filter_protected_branches(
                           git_cleanup_get_merged_branches(r1.deleted), p)
        r2 == IF dr THEN NoRun
              ELSE git_cleanup_delete_branches(merged, interactive, FALSE, yes)
    IN /\ pc = "idle"
       /\ pc' = "returned"
       /\ op' = "git_cleanup.cli.main"
       /\ no_interactive' = ~interactive
       /\ dry_run' = dr
       /\ protect' = p
       /\ status' = CliStatus(gone, merged)
       /\ to_delete' = gone \o merged
       /\ deleted' = r1.deleted \o r2.deleted
       /\ prompts' = r1.prompts \o r2.prompts
       /\ err' = IF fetched = "failed" THEN GitError("fetch_failed", NoName)
                 ELSE NoErr
       /\ DeleteLocals(r1.deleted \o r2.deleted)
       /\ UNCHANGED <<current, worktrees, remotes, remoteUp, remoteHeads, arg,
                      force, no_verify, faults, faults2, idx, failed, ret>>

\* arborist/cli.py delete_branches(branches, dry_run, interactive, force)
DeleteBranches(branches, dr, interactive, f, bulk, yes) ==
    LET r == cli_delete_branches(branches, dr, interactive, f, bulk, yes)
    IN /\ pc = "idle"
       /\ pc' = "returned"
       /\ op' = "arborist.cli.delete_branches"
       /\ no_interactive' = ~interactive
       /\ dry_run' = dr
       /\ force' = f
       /\ to_delete' = branches
       /\ deleted' = r.deleted
       /\ prompts' = r.prompts
       /\ ret' = r.ok
       /\ DeleteLocals(r.deleted)
       /\ UNCHANGED <<current, worktrees, remotes, remoteUp, remoteHeads, arg,
                      protect, no_verify, faults, faults2, status, idx, failed,
                      err>>

\* A clean that goes on to the deletions in spite of dry_run.
CleanPlan_ignores_dry_run(f, p, ni, dr, answer, F) ==
    LET st == get_branch_status(main, F)
        plan == _get_branches_to_delete(st, f, p)
    IN /\ pc = "idle"
       /\ op' = "clean"
       /\ force' = f
       /\ protect' = p
       /\ no_interactive' = ni
       /\ dry_run' = dr
       /\ faults' = F
       /\ status' = st
       /\ to_delete' = plan
       /\ err' = StatusError(st)
       /\ pc' = IF \/ ~st.ok
                   \/ plan = <<>>
                   \/ ~ni /\ ~answer
                THEN "returned"
                ELSE "clean_confirmed"
       /\ UNCHANGED <<ret, prompts, faults2, repoVars, arg, no_verify, batchVars>>

\* BranchCleanup.clean up to the point where the deletions are confirmed:
\* the plan, the empty-plan and dry-run returns, and the prompt with its
\* answer.
CleanPlan(f, p, ni, dr, answer, F) ==
    LET st == get_branch_status(main, F)
        plan == _get_branches_to_delete(st, f, p)
    IN /\ pc = "idle"
       /\ op' = "clean"
       /\ force' = f
       /\ protect' = p
       /\ no_interactive' = ni
       /\ dry_run' = dr
       /\ faults' = F
       /\ status' = st
       /\ to_delete' = plan
       /\ err' = StatusError(st)
       /\ pc' = IF \/ ~st.ok
                   \/ plan = <<>>
                   \/ dr
                   \/ ~ni /\ ~answer
                THEN "returned"
                ELSE "clean_confirmed"
       /\ UNCHANGED <<ret, prompts, faults2, repoVars, arg, no_verify, batchVars>>

\* _delete_branches_in_clean fetches the status map again.
CleanClassify(F) ==
    LET st == get_branch_status(main, F)
    IN /\ pc = "clean_confirmed"
       /\ faults' = F
       /\ status' = st
       /\ err' = StatusError(st)
       /\ pc' = IF st.ok THEN "clean_batch" ELSE "returned"
       /\ idx' = IF st.ok THEN 1 ELSE idx
       /\ UNCHANGED <<ret, prompts, faults2, repoVars, argVars, to_delete, deleted, failed>>

\* A loop that ends at the first failure.
CleanDeleteOne_stop_at_failure(F2) ==
    /\ pc = "clean_batch"
    /\ idx <= Len(to_delete)
    /\ LET branch == to_delete[idx]
           e == _delete_single_branch(branch, force, status, F2)
       IN /\ IF e = NoErr
             THEN /\ DeleteLocal(branch)
                  /\ deleted' = Append(deleted, branch)
                  /\ failed' = failed
                  /\ idx' = idx + 1
             ELSE /\ failed' = Append(failed, <<branch, e>>)
                  /\ idx' = Len(to_delete) + 1
                  /\ UNCHANGED <<tip, tracking, deleted>>
          /\ faults2' = IF Revalidates(branch, force, status) THEN F2 ELSE {}
    /\ UNCHANGED <<ret, prompts, current, remotes, worktrees, remoteUp, remoteHeads, pc,
                   argVars, faults, status, to_delete, err>>

\* One round of the loop of _delete_branches_batch.
CleanDeleteOne(F2) ==
    /\ pc = "clean_batch"
    /\ idx <= Len(to_delete)
    /\ LET branch == to_delete[idx]
           e == _delete_single_branch(branch, force, status, F2)
       IN /\ IF e = NoErr
             THEN /\ DeleteLocal(branch)
                  /\ deleted' = Append(deleted, branch)
                  /\ failed' = failed
             ELSE /\ failed' = Append(failed, <<branch, e>>)
                  /\ UNCHANGED <<tip, tracking, deleted>>
          /\ faults2' = IF Revalidates(branch, force, status) THEN F2 ELSE {}
          /\ idx' = idx + 1
    /\ UNCHANGED <<ret, prompts, current, remotes, worktrees, remoteUp, remoteHeads, pc,
                   argVars, faults, status, to_delete, err>>

\* The end of _delete_branches_in_clean: GitError when a deletion failed.
CleanFinish ==
    /\ pc = "clean_batch"
    /\ idx > Len(to_delete)
    /\ pc' = "returned"
    /\ err' = IF failed # <<>> THEN GitError("batch_failed", NoName) ELSE NoErr
    /\ UNCHANGED <<ret, prompts, faults2, repoVars, argVars, faults, status, to_delete, batchVars>>

\* The operation has returned; its results are dropped.
Return ==
    /\ pc \in {"classified", "planned", "matched", "compared", "validated",
             "returned"}
    /\ pc' = "idle"
    /\ op' = "none"
    /\ arg' = NoName
    /\ force' = FALSE
    /\ protect' = <<>>
    /\ no_verify' = FALSE
    /\ dry_run' = FALSE
    /\ no_interactive' = FALSE
    /\ faults' = {}
    /\ faults2' = {}
    /\ status' = NoStatus
    /\ to_delete' = <<>>
    /\ idx' = 0
    /\ deleted' = <<>>
    /\ failed' = <<>>
    /\ err' = NoErr
    /\ ret' = NoRet
    /\ prompts' = <<>>
    /\ UNCHANGED repoVars

\* A repository with the branch main checked out, as the test fixtures build
\* it, and no operation running.
Init ==
    /\ tip = [n \in Names |-> IF n = main THEN 2 ELSE NoCommit]
    /\ tracking = [n \in Names |-> NoTracking]
    /\ current = main
    /\ worktrees = {}
    /\ remotes \in {{}, {"origin"}, {"origin", "upstream"}}
    /\ remoteUp = [r \in Remotes |-> TRUE]
    /\ remoteHeads = [r \in Remotes |-> IF r = "upstream" /\ r \in remotes THEN UpstreamHeads ELSE {}]
    /\ pc = "idle"
    /\ op = "none"
    /\ arg = NoName
    /\ force = FALSE
    /\ protect = <<>>
    /\ no_verify = FALSE
    /\ dry_run = FALSE
    /\ no_interactive = FALSE
    /\ faults = {}
    /\ faults2 = {}
    /\ status = NoStatus
    /\ to_delete = <<>>
    /\ idx = 0
    /\ deleted = <<>>
    /\ failed = <<>>
    /\ err = NoErr
    /\ ret = NoRet
    /\ prompts = <<>>

\* The classifier in a changing repository.
NextStatus ==
    \/ EnvRepo
    \/ \E F \in Faults(FaultKinds) : GetBranchStatus(F)
    \/ Return

SpecStatus == Init /\ [][NextStatus]_vars

\* The planner in a changing repository with the remote origin.
InitPlan == Init /\ remotes = {"origin"}

NextPlan ==
    \/ \E n \in Names, c \in PlanCommits : ExtCreateBranch(n, c)
    \/ \E n \in Names : ExtPush(n)
    \/ \E n \in Names : ExtRemoteDelete(n)
    \/ \E n \in Names : ExtDeleteBranch(n)
    \/ \E n \in Names : ExtCheckout(n)
    \/ \E f \in BOOLEAN, p \in ProtectLists, F \in Faults({"get_branch"}) :
          GetBranchesToDelete(f, p, F)
    \/ Return

SpecPlan == InitPlan /\ [][NextPlan]_vars

\* The protection matcher as a function of a branch name and a pattern list.
main_dash_1 == main \o <<"-", "1">>
main_slash_x == main \o <<"/", "x">>
mainline == main \o <<"l", "i", "n", "e">>

MatchNames == Names \cup {main_dash_1, main_slash_x, mainline, <<"f">>}

MatchPatterns ==
    {main, <<"f">>, <<"f", "*">>, <<"f", "?">>, <<"*">>, <<"m", "?", "i", "n">>}

MatchLists == UNION {[1..k -> MatchPatterns] : k \in 0..MaxPatterns}

InitMatch == Init /\ remotes = {}

NextMatch ==
    \/ \E n \in MatchNames, P \in MatchLists : IsProtected(n, P)
    \/ Return

SpecMatch == InitMatch /\ [][NextMatch]_vars

\* The three protection matchers side by side.
MatchOthers == {{}, {main}, {fx, mainline}}

NextAgree ==
    \/ \E n \in MatchNames, P \in MatchLists, others \in MatchOthers :
          ProtectionMatchers(n, P, others)
    \/ Return

SpecAgree == InitMatch /\ [][NextAgree]_vars

\* The executors in a changing repository with the remote origin: the two
\* single deletions and clean, over the branch names ExecNames. The plan of
\* clean meets no backend failure here (SpecPlan runs the planner under
\* failures); the status pass before the batch does.
ExecNames == {main, f_slash_a, fx}

\* The names passed to the single deletions: those of ExecNames and one that
\* validate_branch_name rejects.
f_slash_slash_a == <<"f", "/", "/", "a">>

ArgNames == ExecNames \cup {f_slash_slash_a}

ExecProtectLists == {<<>>, << <<"f">> >>}

\* The branches that are pushed to origin in the executor specification.
ExecPushed == {fx}

Next ==
    \/ \E n \in ExecNames, c \in ExecCommits : ExtCreateBranch(n, c)
    \/ \E n \in ExecPushed : ExtPush(n)
    \/ \E n \in ExecPushed : ExtRemoteDelete(n)
    \/ ExtSetUrl
    \/ \E n \in ExecNames : ExtDeleteBranch(n)
    \/ \E n \in ExecNames : ExtCheckout(n)
    \/ \E n \in ArgNames, f \in BOOLEAN, nv \in BOOLEAN, p \in ExecProtectLists :
          OpsDeleteBranch(n, f, nv, p)
    \/ \E n \in ArgNames, f \in BOOLEAN, F \in Faults({"get_branch"}),
          F2 \in Faults({"get_branch"}) :
          CleanupDeleteBranch(n, f, F, F2)
    \/ \E f \in BOOLEAN, p \in ExecProtectLists, ni \in BOOLEAN, dr \in BOOLEAN,
          answer \in BOOLEAN :
          CleanPlan(f, p, ni, dr, answer, {})
    \/ \E F \in Faults({"get_branch"}) : CleanClassify(F)
    \/ \E F2 \in Faults({"get_branch"}) : CleanDeleteOne(F2)
    \/ CleanFinish
    \/ Return

Spec == InitPlan /\ [][Next]_vars

\* BranchCleanup.clean in a repository where branches are checked out in
\* secondary worktrees.
NextWorktree ==
    \/ \E n \in ExecNames, c \in ExecCommits : ExtCreateBranch(n, c)
    \/ \E n \in ExecNames : ExtWorktreeAdd(n)
    \/ \E f \in BOOLEAN, p \in ExecProtectLists, ni \in BOOLEAN, dr \in BOOLEAN,
          answer \in BOOLEAN :
          CleanPlan(f, p, ni, dr, answer, {})
    \/ \E F \in Faults({"get_branch"}) : CleanClassify(F)
    \/ \E F2 \in Faults({"get_branch"}) : CleanDeleteOne(F2)
    \/ CleanFinish
    \/ Return

SpecWorktree == InitPlan /\ [][NextWorktree]_vars

\* BranchCleanup.clean and BranchCleanup._switch_to_safe_branch in a
\* repository where another actor checks branches out.
NextSwitch ==
    \/ \E n \in ExecNames, c \in ExecCommits : ExtCreateBranch(n, c)
    \/ \E n \in ExecNames : ExtCheckout(n)
    \/ \E n \in ExecNames : ExtWorktreeAdd(n)
    \/ \E td \in SUBSET ExecNames : SwitchToSafeBranch(td)
    \/ \E f \in BOOLEAN, p \in ExecProtectLists, ni \in BOOLEAN, dr \in BOOLEAN,
          answer \in BOOLEAN :
          CleanPlan(f, p, ni, dr, answer, {})
    \/ \E F \in Faults({"get_branch"}) : CleanClassify(F)
    \/ \E F2 \in Faults({"get_branch"}) : CleanDeleteOne(F2)
    \/ CleanFinish
    \/ Return

SpecSwitch == InitPlan /\ [][NextSwitch]_vars

\* The characters of the names passed to the validator: a letter, and one or
\* more characters of every rule.
ValidateChars == {"a", "-", "/", ".", "@", "{", " ", "?", "\t", DEL}

RECURSIVE SeqsUpTo(_, _)
\* The sequences over the set chars of length n or less.
SeqsUpTo(chars, n) ==
    IF n = 0 THEN {<<>>}
    ELSE LET shorter == SeqsUpTo(chars, n - 1)
         IN shorter \cup {Append(s, ch) : s \in shorter, ch \in chars}

ValidateNames == SeqsUpTo(ValidateChars, MaxNameLen)

\* The validator on its own, in a repository that changes.
NextValidate ==
    \/ \E n \in ExecNames, c \in ExecCommits : ExtCreateBranch(n, c)
    \/ \E name \in ValidateNames : ValidateBranchName(name)
    \/ Return

SpecValidate == InitPlan /\ [][NextValidate]_vars

\* The protected_branches of the configuration: exact names.
CliProtectLists == {<<>>, <<main>>}

\* The lists of branches handed to delete_branches.
CliBranchLists == {ListOf(t) : t \in SUBSET ExecNames}

\* The command line: both main commands.
NextCli ==
    \/ \E n \in ExecNames, c \in ExecCommits : ExtCreateBranch(n, c)
    \/ \E n \in ExecPushed : ExtPush(n)
    \/ \E n \in ExecPushed : ExtRemoteDelete(n)
    \/ ExtSetUrl
    \/ \E n \in ExecNames : ExtCheckout(n)
    \/ \E ni \in BOOLEAN, dr \in BOOLEAN, p \in CliProtectLists,
          bulk \in BOOLEAN, yes \in SUBSET ExecNames :
          ArboristMain(ni, dr, p, bulk, yes)
    \/ \E dr \in BOOLEAN, interactive \in BOOLEAN, p \in CliProtectLists,
          yes \in SUBSET ExecNames :
          GitCleanupMain(dr, interactive, p, yes)
    \/ Return

SpecCli == InitPlan /\ [][NextCli]_vars

\* The deletion of a list of branches by the command line, with its prompts.
NextPrompt ==
    \/ \E n \in ExecNames, c \in ExecCommits : ExtCreateBranch(n, c)
    \/ \E n \in ExecNames : ExtCheckout(n)
    \/ \E branches \in CliBranchLists, dr \in BOOLEAN, interactive \in BOOLEAN,
          f \in BOOLEAN, bulk \in BOOLEAN :
          \E yes \in SUBSET {n \in ExecNames : Contains(branches, n)} :
             DeleteBranches(branches, dr, interactive, f, bulk, yes)
    \/ Return

SpecPrompt == InitPlan /\ [][NextPrompt]_vars

\* ------------------------------------------------------- classifier claims

Classified == pc = "classified" /\ status.ok

\* The head named by b's tracking reference is found on no configured remote.
Unresolved(b) ==
    /\ tracking[b] # NoTracking
    /\ \A r \in remotes : ~(remoteUp[r] /\ b \in remoteHeads[r])

\* b's tip is the target's tip or one of its ancestors.
TipInTarget(b) == tip[b] \in AncestorsOrSelf(tip[main])

NoFault(b) == \A k \in FaultKinds : <<k, b>> \notin faults

\* C7: a branch with a tracking reference whose remote head is found on no
\* configured remote is classified GONE, also when its tip is an ancestor of
\* (or equal to) the target's tip.
C7_GoneBeforeMerged ==
    Classified => \A b \in heads : Unresolved(b) => status.map[b] = "GONE"

C7_Witness ==
    /\ Classified
    /\ \E b \in heads \ {main} :
          Unresolved(b) /\ TipInTarget(b) /\ status.map[b] = "GONE"

\* C8: a branch without a tracking reference is never classified GONE; its
\* status is MERGED, UNMERGED or UNKNOWN.
C8_UntrackedNeverGone ==
    Classified =>
        \A b \in heads :
            tracking[b] = NoTracking =>
                status.map[b] \in {"MERGED", "UNMERGED", "UNKNOWN"}

C8_Witness ==
    /\ Classified
    /\ \E b \in heads : tracking[b] = NoTracking /\ status.map[b] = "UNMERGED"
    /\ \/ remotes = {}
       \/ \A r \in remotes : ~remoteUp[r]

C10_UnreachableIsUnknown ==
    Classified =>
        \A b \in heads :
            (tracking[b] # NoTracking /\ ~remoteUp[tracking[b]]) =>
                status.map[b] = "UNKNOWN"

\* The merge-base computation of b's classification was reached and failed.
MergeBaseFailed(b) ==
    /\ <<"merge_base", b>> \in faults
    /\ <<"get_branch", b>> \notin faults
    /\ ~_is_branch_gone(b)

\* C11: classification never raises for a single branch, every branch gets a
\* status, and a branch whose merge-base computation failed is UNKNOWN.
C11_FailureIsUnknown ==
    Classified =>
        /\ DOMAIN status.map = heads
        /\ \A b \in heads : MergeBaseFailed(b) => status.map[b] = "UNKNOWN"

\* C12: the status map has no entry for the target branch, and the target
\* branch is never proposed for deletion.
C12_TargetNotClassified ==
    (pc = "planned" /\ status.ok) =>
        /\ main \notin DOMAIN status.map
        /\ \A i \in 1..Len(to_delete) : to_delete[i] # main

\* ---------------------------------------------------------- planner claims

Planned == pc = "planned" /\ status.ok

\* The names in the list returned by the planner.
InPlan == {to_delete[i] : i \in 1..Len(to_delete)}

\* C2: the list returned by _get_branches_to_delete never contains the
\* checked-out branch, whatever its status, the protection list and force.
C2_PlanExcludesCurrent == pc = "planned" => current \notin InPlan

C2_Witness ==
    /\ Planned
    /\ current # main
    /\ status.map[current] \in {"MERGED", "GONE"}
    /\ ~_is_protected_by_pattern(current, protect)
    /\ InPlan # {}

\* C3: the planner's list never contains a branch that the protection matcher
\* accepts for the supplied patterns (exact, prefix or glob), even when the
\* branch is MERGED or GONE.
C3_PlanExcludesProtected ==
    pc = "planned" =>
        \A b \in InPlan : ~_is_protected_by_pattern(b, protect)

C3_Witness ==
    /\ Planned
    /\ InPlan # {}
    /\ \E b \in heads \ {current} :
          /\ status.map[b] \in {"MERGED", "GONE"}
          /\ b \notin {protect[i] : i \in 1..Len(protect)}
          /\ _is_protected_by_pattern(b, protect)

\* C4: a branch whose status is UNKNOWN is never in the planner's list, with
\* force and without.
C4_PlanExcludesUnknown ==
    Planned => \A b \in InPlan : status.map[b] # "UNKNOWN"

C4_Witness ==
    /\ Planned
    /\ force
    /\ InPlan # {}
    /\ \E b \in heads \ {current} :
          status.map[b] = "UNKNOWN" /\ ~_is_protected_by_pattern(b, protect)

\* C5: without force the planner's list holds no UNMERGED branch; with force
\* it holds every UNMERGED branch that is neither the checked-out branch nor
\* protected.
C5_UnmergedNeedsForce ==
    Planned =>
        \A b \in heads :
            status.map[b] = "UNMERGED" =>
                IF force
                THEN (b # current /\ ~_is_protected_by_pattern(b, protect))
                        => b \in InPlan
                ELSE b \notin InPlan

C5_Witness ==
    /\ Planned
    /\ ~force
    /\ InPlan # {}
    /\ \E b \in heads \ {current} :
          /\ status.map[b] = "UNMERGED"
          /\ tracking[b] = NoTracking
          /\ ~_is_protected_by_pattern(b, protect)

Eligible(b) == b # current /\ ~_is_protected_by_pattern(b, protect)

SingleDeletes == {"BranchOperations.delete_branch", "BranchCleanup.delete_branch"}

\* This step is a single-branch deletion called with the name b.
SingleAttempt(b) ==
    /\ pc = "idle"
    /\ pc' = "returned"
    /\ op' \in SingleDeletes
    /\ arg' = b

\* This step is the round of the batch loop of clean that handles b.
BatchAttempt(b) ==
    /\ pc = "clean_batch"
    /\ idx' = idx + 1
    /\ to_delete[idx] = b

\* The error this step's deletion ended with, NoErr when it succeeded.
AttemptError ==
    IF pc = "clean_batch"
    THEN IF Len(failed') > Len(failed) THEN failed'[Len(failed')][2] ELSE NoErr
    ELSE err'

\* BranchCleanup.delete_branch builds the status map before it looks at the
\* branch: without the target branch main that fails first.
StatusFailsFirst ==
    /\ pc = "idle"
    /\ op' = "BranchCleanup.delete_branch"
    /\ main \notin heads

CleanupUnmergedAttempt(b) ==
    /\ SingleAttempt(b)
    /\ op' = "BranchCleanup.delete_branch"
    /\ b \in heads
    /\ b # current
    /\ status'.ok
    /\ status'.map[b] = "UNMERGED"

\* This step is BranchOperations.delete_branch called with the name b of a
\* branch that is not checked out, that the protected_branches passed do not
\* protect, and that the classifier finds UNMERGED.
OpsUnmergedAttempt(b) ==
    /\ SingleAttempt(b)
    /\ op' = "BranchOperations.delete_branch"
    /\ b \in heads
    /\ b # current
    /\ main \in heads
    /\ _get_branch_status(b, main, {}) = "UNMERGED"
    /\ ~(~no_verify' /\ _validate_not_protected(b, protect'))

\* The errors that say the branch is not merged: the one raised by the
\* re-validation, and those that carry git's refusal of an unforced deletion.
NotMergedErrors == {"not_merged", "unmerged_changes", "delete_failed"}

\* C15, for a branch that is neither checked out nor protected (and, in
\* BranchOperations, has no tracking reference): a single-branch deletion of
\* an UNMERGED branch without force fails with a not-merged error and removes
\* nothing; with force it succeeds and removes exactly that branch.
C15_UnmergedDeletionNeedsForce ==
    [][\A b \in Names :
          \/ CleanupUnmergedAttempt(b)
          \/ OpsUnmergedAttempt(b) /\ tracking[b] = NoTracking
          => IF force'
             THEN err' = NoErr /\ heads' = heads \ {b}
             ELSE err'.kind \in NotMergedErrors /\ heads' = heads]_vars

\* This step is a single-branch deletion without force of the branch b, which
\* has a tracking reference, is classified MERGED, is not checked out and is
\* not protected by the protected_branches passed.
TrackedMergedAttempt(b) ==
    /\ SingleAttempt(b)
    /\ ~force'
    /\ b \in heads
    /\ b # current
    /\ tracking[b] # NoTracking
    /\ main \in heads
    /\ _get_branch_status(b, main, {}) = "MERGED"
    /\ ~(~no_verify' /\ _validate_not_protected(b, protect'))

\* C16: in both executors a single-branch deletion without force of a branch
\* with a tracking reference is refused with the has-remote-tracking error,
\* no local or remote ref is touched and the branch still exists, also when
\* the branch is MERGED.
C16_TrackedNeedsForce ==
    [][\A b \in Names :
          TrackedMergedAttempt(b)
          => /\ err' = GitError("remote_tracking", b)
             /\ heads' = heads
             /\ tracking' = tracking
             /\ remoteHeads' = remoteHeads]_vars

\* This step is BranchOperations.delete_branch with force, called with the
\* name b of a branch that has a tracking reference, is checked out neither
\* here nor in a secondary worktree, and is not protected by the
\* protected_branches passed.
ForcedTrackedAttempt(b) ==
    /\ SingleAttempt(b)
    /\ op' = "BranchOperations.delete_branch"
    /\ force'
    /\ b \in heads
    /\ b # current
    /\ b \notin worktrees
    /\ tracking[b] # NoTracking
    /\ ~(~no_verify' /\ _validate_not_protected(b, protect'))

\* This step is BranchCleanup.delete_branch with force, called with the name b
\* of a branch that has a tracking reference and is checked out neither here
\* nor in a secondary worktree, in a repository whose status map can be built.
CleanupForcedTrackedAttempt(b) ==
    /\ SingleAttempt(b)
    /\ op' = "BranchCleanup.delete_branch"
    /\ force'
    /\ b \in heads
    /\ b # current
    /\ b \notin worktrees
    /\ tracking[b] # NoTracking
    /\ status'.ok

\* What C17 requires of a forced deletion of b, by the outcome that deleting
\* the head b on its remote has.
RemoteThenLocal(b) ==
    LET remote == tracking[b]
        pushed == push_delete(remote, b)
    IN /\ pushed = "ok"
          => /\ err' = NoErr
             /\ heads' = heads \ {b}
             /\ remoteHeads' = [remoteHeads EXCEPT ![remote] = @ \ {b}]
       /\ pushed = "remote ref does not exist"
          => /\ err' = NoErr
             /\ heads' = heads \ {b}
             /\ remoteHeads' = remoteHeads
       /\ pushed = "unreachable"
          => /\ err' = GitError("remote_delete_failed", NoName)
             /\ heads' = heads
             /\ tracking' = tracking
             /\ remoteHeads' = remoteHeads

ForcedCleanDone ==
    /\ pc = "returned"
    /\ op = "clean"
    /\ force
    /\ no_interactive
    /\ ~dry_run
    /\ status.ok
    /\ idx > Len(to_delete)

\* C18: after clean(force=True, no_interactive=True), a branch that was
\* selected for deletion no longer exists and no worktree is bound to it, also
\* when it was checked out in a secondary worktree: the executor removes the
\* worktree before it deletes the local ref.
C18_WorktreeRemovedFirst ==
    ForcedCleanDone =>
        \A i \in 1..Len(to_delete) :
            /\ to_delete[i] \notin heads
            /\ to_delete[i] \notin worktrees

\* The loop of _delete_branches_batch is running or has ended.
InBatch == op = "clean" /\ idx > 0 /\ pc \in {"clean_batch", "returned"}

\* _delete_branches_batch has returned.
BatchReturned == InBatch /\ pc = "returned"

\* The names of the failed list, in its order.
FailedNames == [i \in 1..Len(failed) |-> failed[i][1]]

InSeq(x, s) == \E i \in 1..Len(s) : s[i] = x

\* The names of s that are in t, in the order of s.
Restrict(s, t) == SelectSeq(s, LAMBDA x : InSeq(x, t))

ExitCode(e) == IF e = NoErr THEN 0 ELSE 1

\* C20: a clean run whose batch was executed ends with exit code 0, also when
\* deletions of single branches failed; those failures are only reported.
C20_FailuresStillSucceed == BatchReturned => ExitCode(err) = 0

\* The candidate list that clean computes in the repository as it is now, with
\* the arguments of the running operation.
DryRunPlan ==
    _get_branches_to_delete(get_branch_status(main, faults), force, protect)

BatchHasCurrent == InBatch /\ InSeq(current, to_delete)

SwitchStep == pc = "idle" /\ op' = "_switch_to_safe_branch"

\* This step is a step of clean, not one of another actor.
CleanStep == (op = "clean" \/ op' = "clean") /\ progVars' # progVars

\* The heads that are neither in the list td nor the checked-out branch.
SafeBranches(td) == {b \in heads : ~InSeq(b, td) /\ b # current}

GoneAttempt(b) ==
    /\ b \in heads
    /\ b # current
    /\ b \notin worktrees
    /\ \/ /\ BatchAttempt(b)
          /\ ~force
          /\ status.map[b] = "GONE"
       \/ /\ SingleAttempt(b)
          /\ op' = "BranchCleanup.delete_branch"
          /\ ~force'
          /\ status'.ok
          /\ status'.map[b] = "GONE"

\* This step is the plan of clean without force, and b is GONE in its status
\* map, not checked out and not protected.
GonePlanned(b) ==
    /\ pc = "idle"
    /\ op' = "clean"
    /\ ~force'
    /\ status'.ok
    /\ b \in heads
    /\ status'.map[b] = "GONE"
    /\ b # current
    /\ ~_is_protected_by_pattern(b, protect')

\* C23: clean without force plans a GONE branch that is neither current nor
\* protected, and the executor deletes a GONE branch without force, whether
\* or not its commits are merged.
C23_GoneForceDeleted ==
    [][\A b \in Names :
          /\ GonePlanned(b) => InSeq(b, to_delete')
          /\ GoneAttempt(b) => AttemptError = NoErr /\ heads' = heads \ {b}]_vars

\* clean without force has deleted the GONE branch fx.
C23_Witness ==
    /\ BatchReturned
    /\ ~force
    /\ deleted = <<fx>>
    /\ status.map[fx] = "GONE"
    /\ fx \notin heads
    /\ err = NoErr

CliMains == {"arborist.cli.main", "git_cleanup.cli.main"}

\* A run of a main command that was not dry has returned, and its fetch with
\* prune failed: origin could not be reached.
FetchFailedRun ==
    /\ pc = "returned"
    /\ op \in CliMains
    /\ ~dry_run
    /\ fetch_prune = "failed"

\* C24: a run whose fetch with prune failed ends with exit code 1, has
\* classified no branch as gone and has deleted no branch.
C24_FetchFailureIsFatal ==
    FetchFailedRun =>
        /\ ExitCode(err) = 1
        /\ deleted = <<>>
        /\ \A b \in DOMAIN status.map : status.map[b] # "GONE"

\* This step is BranchCleanup.delete_branch(b, force=False) on an existing
\* branch that both its status pass and the pass of _validate_branch_merged
\* classify as UNKNOWN.
UnknownAttempt(b) ==
    /\ SingleAttempt(b)
    /\ op' = "BranchCleanup.delete_branch"
    /\ ~force'
    /\ b \in heads
    /\ status'.ok
    /\ status'.map[b] = "UNKNOWN"
    /\ <<"get_branch", b>> \in faults2'

C28_RevalidatesLive ==
    [][\A b \in Names :
          BatchAttempt(b) /\ (b \notin heads \/ b = current) =>
              /\ failed' = Append(failed,
                     <<b, GitError(IF b \notin heads THEN "does_not_exist"
                                   ELSE "current_branch", b)>>)
              /\ deleted' = deleted
              /\ repoVars' = repoVars
              /\ pc' = "clean_batch"]_vars

\* A batch of two planned names has returned: the first was deleted by
\* another actor after the plan and failed as not existing, the second was
\* deleted by the batch.
C28_Witness ==
    /\ BatchReturned
    /\ Len(to_delete) = 2
    /\ failed = << <<to_delete[1], GitError("does_not_exist", to_delete[1])>> >>
    /\ deleted = <<to_delete[2]>>

\* This step is BranchOperations.delete_branch called with the name b.
OpsAttempt(b) ==
    /\ SingleAttempt(b)
    /\ op' = "BranchOperations.delete_branch"

\* C29: BranchOperations.delete_branch called on the current branch raises
\* "cannot delete current branch" and changes nothing in the repository, no
\* local head and no remote head, whatever force and no_verify are; called
\* with no_verify on another branch it ends with neither the protection
\* error nor the not-merged error.
C29_NoVerifyKeepsCurrentGuard ==
    [][\A b \in Names :
          OpsAttempt(b) /\ b \in heads =>
              /\ b = current =>
                     /\ err' = GitError("current_branch", b)
                     /\ repoVars' = repoVars
              /\ no_verify' => err'.kind \notin {"protected", "not_merged"}]_vars

\* delete_branch has returned from a call with force and no_verify on the
\* current branch, which has a tracking reference and a head on origin: the
\* call raised and both refs are in place.
C29_Witness ==
    /\ pc = "returned"
    /\ op = "BranchOperations.delete_branch"
    /\ no_verify
    /\ force
    /\ arg = current
    /\ tracking[arg] = "origin"
    /\ remoteUp["origin"]
    /\ arg \in remoteHeads["origin"]
    /\ arg \in heads
    /\ err = GitError("current_branch", arg)

\* --------------------------------------------------- command line claims

\* An interactive deletion of two or more branches, not dry, has returned.
InteractiveRun ==
    /\ pc = "returned"
    /\ op = "arborist.cli.delete_branches"
    /\ ~no_interactive
    /\ ~dry_run
    /\ Len(to_delete) >= 2

\* C26: the first prompt of an interactive deletion of two or more branches
\* is the bulk prompt; when it is rejected no other prompt is asked and no
\* branch is deleted; when it is accepted the branches passed to the delete
\* operation are the ones whose own prompt was accepted.
C26_BulkPromptGates ==
    InteractiveRun =>
        /\ prompts # <<>>
        /\ prompts[1][1] = BulkPrompt
        /\ IF ~prompts[1][2]
           THEN Len(prompts) = 1 /\ deleted = <<>>
           ELSE /\ \A i \in 1..Len(deleted) :
                     \E k \in 2..Len(prompts) : prompts[k] = <<deleted[i], TRUE>>
                /\ \A k \in 2..Len(prompts) :
                     prompts[k][2] =>
                        \/ Contains(deleted, prompts[k][1])
                        \/ k = Len(prompts) /\ ret = FALSE

\* -------------------------------------------------------- validator claims

Validated == pc = "validated"

\* The rules of the validator, in the order of the claim.
RuleOrder ==
    <<"empty", "start_end", "double_slash", "invalid_chars", "control_chars",
      "dots", "reflog">>

\* The name n violates the rule.
Violates(n, rule) ==
    CASE rule = "empty" -> Len(n) = 0
      [] rule = "start_end" ->
            Len(n) > 0 /\ (n[1] \in {"-", "/"} \/ n[Len(n)] \in {"-", "/"})
      [] rule = "double_slash" ->
            \E i \in 1..(Len(n) - 1) : n[i] = "/" /\ n[i + 1] = "/"
      [] rule = "invalid_chars" -> \E i \in 1..Len(n) : n[i] \in InvalidChars
      [] rule = "control_chars" -> \E i \in 1..Len(n) : n[i] \in ControlChars
      [] rule = "dots" -> Len(n) > 0 /\ (n[1] = "." \/ n[Len(n)] = ".")
      [] rule = "reflog" ->
            \E i \in 1..(Len(n) - 1) : n[i] = "@" /\ n[i + 1] = "{"

Matched == pc = "matched"

Wildcard(pattern) == Contains(pattern, "*") \/ Contains(pattern, "?")

\* Some pattern equals the name or is followed in it by "-" or "/".
PrefixProtected(n, patterns) ==
    \E i \in 1..Len(patterns) :
        \/ n = patterns[i]
        \/ StartsWith(n, patterns[i] \o <<"-">>)
        \/ StartsWith(n, patterns[i] \o <<"/">>)

\* C13: for a pattern list without wildcard characters the matcher returns
\* true exactly when some pattern p has n = p, or n starts with p + "-" or with
\* p + "/"; for the empty list it returns false.
C13_PrefixMatching ==
    Matched =>
        /\ (\A i \in 1..Len(protect) : ~Wildcard(protect[i]))
               => ret = PrefixProtected(arg, protect)
        /\ protect = <<>> => ret = FALSE

\* "main" does not protect "mainline".
C13_Witness ==
    /\ Matched
    /\ protect = <<main, <<"f">> >>
    /\ arg = mainline
    /\ ret = FALSE

\* C14: a pattern with a wildcard character, "*" or "?", protects every
\* branch name that the glob matches in full.
C14_GlobMatching ==
    Matched =>
        \A i \in 1..Len(protect) :
            (Wildcard(protect[i]) /\ fnmatch(arg, protect[i])) => ret = TRUE

\* The three matchers have been called with the same name and patterns.
Compared == pc = "compared"

\* C30: for every branch name and every non-empty pattern list,
\* _is_protected_by_pattern returns true exactly when _validate_not_protected
\* raises, and exactly when _remove_protected_branches takes the name out of
\* a candidate set that contains it; candidates are only ever taken out.
C30_MatchersAgree ==
    Compared /\ protect # <<>> =>
        /\ arg \in ret.candidates
        /\ ret.remaining \subseteq ret.candidates
        /\ ret.is_protected = ret.raises
        /\ ret.is_protected = (arg \notin ret.remaining)

\* "main" protects "main-1" in all three matchers and leaves "mainline" among
\* the candidates.
C30_Witness ==
    /\ Compared
    /\ protect = <<main>>
    /\ arg = main_dash_1
    /\ ret.is_protected
    /\ ret.raises
    /\ ret.candidates = {main_dash_1, fx, mainline}
    /\ ret.remaining = {fx, mainline}

====
